---- MODULE Spec2Model ----
(***************************************************************************)
(* Debug-configuration resolution of the C# extension                      *)
(* (BaseVsDbgConfigurationProvider, src/src/shared/configurationProvider.ts)*)
(*                                                                         *)
(* A debug configuration is an open mapping from keys to JSON values.  It  *)
(* is modelled as a function from Keys to string-coded values; Absent      *)
(* codes "no such own property".  One behaviour is one call of one of the  *)
(* two entry points, followed by the detached flows the call started (the  *)
(* developer-certificate flow and the envFile warning).                    *)
(***************************************************************************)
EXTENDS Integers, Sequences, FiniteSets, TLC

VARIABLES
    call,           \* which entry point this behaviour runs
    pc,             \* position of the call: "start", "picking", "done"
    cfg,            \* the debugConfiguration object (mutated in place)
    env,            \* the content of debugConfiguration.env: a set of <<name, value>>
    input,          \* the configuration and env as passed in (never changes)
    returned,       \* the configuration and env as they were at the return
    settings,       \* vscode.workspace.getConfiguration('csharp').get('debug')
    host,           \* platform, architecture, remoteName, uiKind, folder, brokered pipe
    process,        \* what the awaited picker returned
    envFileRead,    \* what the envFile held when it was read
    result,         \* what the call returned: "pending", "null", "undefined", "config", "threw"
    certPc,         \* position of the detached certificate flow
    errorCode,      \* returnData.error?.code of the certificate check in progress
    dialogResult,   \* `result?.title` of line 203, the answer to the creation prompt
    returnData,     \* what createSelfSignedCert returned last
    outputChannel,  \* lines appended to csharpOutputChannel
    warnPc,         \* position of the detached envFile warning flow
    log,            \* calls made on the host and returns of the entry point, in order
    section,        \* argument of convertServerOptionNameToClientConfigurationName
    converted,      \* what the conversion of `section` returned
    response,       \* what the backend answered to the block structure request
    foldingRanges   \* what provideFoldingRanges returned

vars == <<call, pc, cfg, env, input, returned, settings, host, process, envFileRead, result, certPc, errorCode, dialogResult,
          returnData,
          outputChannel, warnPc, log, section, converted, response, foldingRanges>>

(***************************************************************************)
(* Bounds of the exploration.                                              *)
(***************************************************************************)
\* "More Information" answers followed in one behaviour
MaxMoreInfo == 2
\* keys of the user-level csharp.debug settings object
MaxSettings == 3

(***************************************************************************)
(* JSON values, string-coded.                                              *)
(***************************************************************************)
Absent    == "<absent>"
Undefined == "<undefined>"
Null      == "<null>"
Obj       == "<object>"

\* JavaScript truthiness of a coded value (`!x` is ~Truthy(x))
Truthy(v) == v \notin {Absent, Undefined, Null, "", "false"}

\* `x === undefined`
IsUndefined(v) == v \in {Absent, Undefined}

\* the left side of `x ??= y` is kept unless it is null or undefined
IsNullish(v) == v \in {Absent, Undefined, Null}

Keys ==
    {"type", "request", "cwd", "pipeTransport", "internalConsoleOptions",
     "envFile", "env", "processId", "processName", "targetArchitecture",
     "checkForDevCert", "serverReadyAction", "brokeredServicePipeName",
     "console", "justMyCode"}

EmptyConfig == [k \in Keys |-> Absent]

\* debugConfiguration.hasOwnProperty(key)
HasOwnProperty(c, k) == k \in Keys /\ c[k] # Absent

\* Object.keys(debugConfiguration)
ObjectKeys(c) == {k \in Keys : c[k] # Absent}

(***************************************************************************)
(* The log: every call made on the host or on an external tool appends its *)
(* name; the entry point's return appends "return:<what>".                 *)
(***************************************************************************)
Count(ev) == Cardinality({i \in DOMAIN log : log[i] = ev})

Happened(ev) == \E i \in DOMAIN log : log[i] = ev

\* every occurrence of a precedes every occurrence of b
Precedes(a, b) ==
    \A i, j \in DOMAIN log : (log[i] = a /\ log[j] = b) => i < j

(***************************************************************************)
(* resolveDebugConfiguration: merge of the user-level settings.            *)
(* A settings entry is [key, t, v]: the key, typeof/shape of the value and *)
(* the coded value.                                                        *)
(***************************************************************************)
\* CheckIfSettingIsEmpty throws: Object.keys(null), or the default branch
SettingThrows(e) == e.t \notin {"array", "object", "string", "boolean", "number"}

CheckIfSettingIsEmpty(e) ==
    CASE e.t = "array"  -> e.v = "[]"
      [] e.t = "object" -> e.v = "{}"
      [] e.t = "string" -> ~Truthy(e.v)
      [] OTHER          -> FALSE

\* the check of line 166 without its hasOwnProperty condition
SkipsOnlyConsole(c, key) == key = "console"

\* a key of the settings is skipped without looking at its value
SkipsKey(c, key) == HasOwnProperty(c, key) \/ key = "console"

\* the loop of loadSettingDebugOptions over the keys, in order
RECURSIVE LoadSettingDebugOptions(_, _)
LoadSettingDebugOptions(c, s) ==
    IF s = <<>> THEN [cfg |-> c, threw |-> FALSE]
    ELSE LET e == Head(s) IN
         IF SkipsKey(c, e.key) THEN LoadSettingDebugOptions(c, Tail(s))
         ELSE IF SettingThrows(e) THEN [cfg |-> c, threw |-> TRUE]
         ELSE IF ~CheckIfSettingIsEmpty(e)
              THEN LoadSettingDebugOptions([c EXCEPT ![e.key] = e.v], Tail(s))
              ELSE LoadSettingDebugOptions(c, Tail(s))

(***************************************************************************)
(* resolveDebugConfigurationWithSubstitutedVariables: the enrichments.     *)
(***************************************************************************)
\* the check of line 49 made on the request instead of the type
MissingRequest(c) == ~Truthy(c["request"])

\* `!debugConfiguration.type`
MissingType(c) == ~Truthy(c["type"])

\* lines 54-57: the brokered service pipe name, when there is one
WithBrokeredServicePipeName(c) ==
    IF ~IsUndefined(host.brokeredServicePipeName)
    THEN [c EXCEPT !["brokeredServicePipeName"] = host.brokeredServicePipeName]
    ELSE c

\* `folder?.uri.fsPath`
FolderPath == host.folder

\* the check of line 60 without its pipeTransport condition
DefaultsCwdIgnoringTransport(c) == ~Truthy(c["cwd"])

\* line 60: the working directory is to be defaulted
DefaultsCwd(c) == ~Truthy(c["cwd"]) /\ ~Truthy(c["pipeTransport"])

\* lines 60-64: cwd and internalConsoleOptions of a launch request
LaunchDefaults(c) ==
    LET c1 == IF DefaultsCwd(c) THEN [c EXCEPT !["cwd"] = FolderPath] ELSE c
    IN  IF IsNullish(c1["internalConsoleOptions"])
        THEN [c1 EXCEPT !["internalConsoleOptions"] = "openOnSessionStart"]
        ELSE c1

\* line 67: there is an envFile to read
HasEnvFile(c) == ~IsUndefined(c["envFile"]) /\ c["envFile"] # ""

\* the check of line 73 without its processName condition
NeedsProcessIgnoringName(c) ==
    c["request"] = "attach" /\ ~Truthy(c["processId"])

\* line 73: the attach request names no process
NeedsProcess(c) ==
    c["request"] = "attach" /\ ~Truthy(c["processId"]) /\ ~Truthy(c["processName"])

\* lines 75-82: the picker that is opened
PickerFor(c) == IF Truthy(c["pipeTransport"]) THEN "remote" ELSE "local"

\* P_TRANSLATED, the process flag of an emulated process
P_TRANSLATED == 131072

\* `process.flags & 0x20000`
IsTranslated(flags) == (flags \div P_TRANSLATED) % 2 = 1

\* lines 87-89 without the architecture test
InfersArchitectureOnAnyMac(c) ==
    c["type"] = "coreclr" /\ host.platform = "darwin"

\* lines 87-89: the target architecture is inferred
InfersArchitecture(c) ==
    c["type"] = "coreclr" /\ host.platform = "darwin" /\ host.architecture = "arm64"

\* lines 85-98: a process was picked
WithProcess(c, item) ==
    LET c1 == [c EXCEPT !["processId"] = item.id]
    IN  IF InfersArchitecture(c1)
        THEN [c1 EXCEPT !["targetArchitecture"] =
                            IF IsTranslated(item.flags) THEN "x86_64" ELSE "arm64"]
        ELSE c1

\* the check of line 110 without its Web UI condition
CertCheckSupportedIgnoringUiKind(c) ==
    /\ host.platform # "linux"
    /\ ~Truthy(host.remoteName)
    /\ ~Truthy(c["pipeTransport"])

\* line 110: the certificate check is possible here
CertCheckSupported(c) ==
    /\ host.platform # "linux"
    /\ ~Truthy(host.remoteName)
    /\ host.uiKind # "Web"
    /\ ~Truthy(c["pipeTransport"])

\* lines 111-113: checkForDevCert defaults to true for a coreclr web launch
WithCheckForDevCert(c) ==
    IF /\ CertCheckSupported(c)
       /\ IsUndefined(c["checkForDevCert"])
       /\ Truthy(c["serverReadyAction"])
       /\ c["type"] = "coreclr"
    THEN [c EXCEPT !["checkForDevCert"] = "true"]
    ELSE c

\* lines 110, 115: checkForDevCerts is called
StartsCertCheck(c) ==
    CertCheckSupported(c) /\ Truthy(WithCheckForDevCert(c)["checkForDevCert"])

(***************************************************************************)
(* ParsedEnvironmentFile.CreateFromFile(envFile, config["env"]).  A file   *)
(* is [readable, lines]; a line is [ok, key, value], ok when it has the    *)
(* shape KEY=VALUE.                                                        *)
(***************************************************************************)
\* env[key] = value
SetVar(e, key, value) == {p \in e : p[1] # key} \cup {<<key, value>>}

RECURSIVE ParseLines(_, _)
ParseLines(lines, e) ==
    IF lines = <<>> THEN e
    ELSE LET l == Head(lines) IN
         ParseLines(Tail(lines), IF l.ok THEN SetVar(e, l.key, l.value) ELSE e)

\* the lines that are neither KEY=VALUE nor blank nor comments
ParseErrors(lines) == {i \in DOMAIN lines : ~lines[i].ok}

CreateFromFile(file, initialEnv) ==
    [Env     |-> ParseLines(file.lines, initialEnv),
     Warning |-> IF ParseErrors(file.lines) # {}
                 THEN "Ignoring non-parseable lines in envFile" ELSE Undefined]

\* line 130 with no initial env handed to the parser
InitialEnvIgnored(c) == {}

\* line 130: `config["env"]`, the entries the parser starts from
InitialEnv(c) == IF Truthy(c["env"]) THEN env ELSE {}

\* lines 137, 144: config.env = parsedFile.Env; delete config.envFile
WithParsedEnv(c) == [c EXCEPT !["env"] = Obj, !["envFile"] = Absent]

\* what the file system may hold at the envFile path
LineA == [ok |-> TRUE, key |-> "A", value |-> "1"]
LineB == [ok |-> TRUE, key |-> "B", value |-> "3"]
BadLine == [ok |-> FALSE, key |-> "", value |-> ""]

EnvFiles ==
    {[readable |-> FALSE, lines |-> <<>>],
     [readable |-> TRUE, lines |-> <<LineA>>],
     [readable |-> TRUE, lines |-> <<LineB, BadLine>>],
     [readable |-> TRUE, lines |-> <<BadLine, LineA>>],
     [readable |-> TRUE, lines |-> <<BadLine>>]}

\* no envFile has been read
NoFile == [readable |-> FALSE, lines |-> <<>>]

\* what the picker may return: an AttachItem with its id and flags, or undefined
Processes ==
    {[is |-> "item", id |-> "1234", flags |-> f] : f \in {0, 4, P_TRANSLATED, P_TRANSLATED + 4}}

\* the picker returned undefined
NoProcess == [is |-> "undefined", id |-> Undefined, flags |-> 0]

\* no picker has returned
NotPicked == [is |-> "pending", id |-> Undefined, flags |-> 0]

(***************************************************************************)
(* The calls of the entry points.                                          *)
(***************************************************************************)
NoSnapshot == [cfg |-> EmptyConfig, env |-> {}]

FlowsUnchanged == UNCHANGED <<certPc, errorCode, dialogResult, returnData, outputChannel, warnPc>>
InputsUnchanged ==
    UNCHANGED <<call, input, settings, host, section, converted, response, foldingRanges>>

\* lines 101-102 without the dialog
NoProcessSelectedSilently == <<"return:undefined">>

\* lines 101-102: no process was selected
NoProcessSelected == <<"showErrorMessage:modal", "return:undefined">>

\* lines 110-120 with the certificate check awaited before the return
ReturnConfigurationAwaitingCheck(c, e, calls, w) ==
    LET c2 == WithCheckForDevCert(c)
        start == StartsCertCheck(c)
    IN  /\ cfg' = c2
        /\ env' = e
        /\ returned' = IF start THEN returned ELSE [cfg |-> c2, env |-> e]
        /\ pc' = IF start THEN "awaiting" ELSE "done"
        /\ result' = IF start THEN result ELSE "config"
        /\ certPc' = IF start THEN "checking" ELSE certPc
        /\ warnPc' = w
        /\ log' = log \o calls
                      \o (IF start THEN <<"hasDotnetDevCertsHttps">> ELSE <<"return:config">>)
        /\ UNCHANGED <<errorCode, dialogResult, returnData, outputChannel>>
        /\ InputsUnchanged

\* lines 110-120: the certificate check is started, not awaited, and the
\* configuration c (with env e) is returned; `calls` are the calls made
\* before, `w` the position of the envFile warning
ReturnConfiguration(c, e, calls, w) ==
    LET c2 == WithCheckForDevCert(c)
        start == StartsCertCheck(c)
    IN  /\ cfg' = c2
        /\ env' = e
        /\ returned' = [cfg |-> c2, env |-> e]
        /\ pc' = "done"
        /\ result' = "config"
        /\ certPc' = IF start THEN "checking" ELSE certPc
        /\ warnPc' = w
        /\ log' = log \o calls
                      \o (IF start THEN <<"hasDotnetDevCertsHttps">> ELSE <<>>)
                      \o <<"return:config">>
        /\ UNCHANGED <<errorCode, dialogResult, returnData, outputChannel>>
        /\ InputsUnchanged

\* the entry point returns `what` without a configuration, or throws
Abort(c, what, calls) ==
    /\ cfg' = c
    /\ pc' = "done"
    /\ result' = what
    /\ log' = log \o calls
    /\ UNCHANGED <<env, returned>>
    /\ FlowsUnchanged
    /\ InputsUnchanged

----
\* resolveDebugConfiguration, lines 32-36: the empty "Run and Debug" configuration
ResolveEmptyConfiguration ==
    /\ call = "resolveDebugConfiguration" /\ pc = "start"
    /\ ObjectKeys(cfg) = {}
    /\ UNCHANGED <<process, envFileRead>>
    /\ \E csharpDevkitExtension \in BOOLEAN :
          Abort(cfg, IF csharpDevkitExtension THEN "undefined" ELSE "null",
                IF csharpDevkitExtension THEN <<"return:undefined">> ELSE <<"return:null">>)

\* resolveDebugConfiguration, lines 39-41: the settings are merged in
ResolveDebugConfiguration ==
    /\ call = "resolveDebugConfiguration" /\ pc = "start"
    /\ ObjectKeys(cfg) # {}
    /\ settings.defined
    /\ LET r == LoadSettingDebugOptions(cfg, settings.entries)
       IN  /\ ~r.threw
           /\ cfg' = r.cfg
           /\ returned' = [cfg |-> r.cfg, env |-> env]
           /\ pc' = "done"
           /\ result' = "config"
           /\ log' = log \o <<"return:config">>
           /\ UNCHANGED <<env, process, envFileRead>>
           /\ FlowsUnchanged
           /\ InputsUnchanged

\* resolveDebugConfiguration throws: JSON.parse(undefined) at line 160, or
\* CheckIfSettingIsEmpty on a value that is no JSON container or scalar
ResolveDebugConfigurationThrows ==
    /\ call = "resolveDebugConfiguration" /\ pc = "start"
    /\ ObjectKeys(cfg) # {}
    /\ UNCHANGED <<process, envFileRead>>
    /\ IF settings.defined
       THEN LET r == LoadSettingDebugOptions(cfg, settings.entries)
            IN  r.threw /\ Abort(r.cfg, "threw", <<"throw">>)
       ELSE Abort(cfg, "threw", <<"throw">>)

\* lines 49-57 with the pipe name set before the type is looked at
ReturnNullAfterPipeName ==
    /\ call = "resolveDebugConfigurationWithSubstitutedVariables" /\ pc = "start"
    /\ MissingType(cfg)
    /\ UNCHANGED <<process, envFileRead>>
    /\ Abort(WithBrokeredServicePipeName(cfg), "null", <<"return:null">>)

\* lines 49-52: no type
ReturnNull ==
    /\ call = "resolveDebugConfigurationWithSubstitutedVariables" /\ pc = "start"
    /\ MissingType(cfg)
    /\ UNCHANGED <<process, envFileRead>>
    /\ Abort(cfg, "null", <<"return:null">>)

\* lines 59-70, 110-120: a launch request with no envFile to read
ResolveLaunch ==
    /\ call = "resolveDebugConfigurationWithSubstitutedVariables" /\ pc = "start"
    /\ ~MissingType(cfg)
    /\ cfg["request"] = "launch"
    /\ UNCHANGED <<process, envFileRead>>
    /\ LET c == LaunchDefaults(WithBrokeredServicePipeName(cfg))
       IN  /\ ~HasEnvFile(c)
           /\ ReturnConfiguration(c, env, <<>>, warnPc)

\* lines 59-70, 128-147, 110-120: a launch request whose envFile is read
ResolveLaunchWithEnvFile ==
    /\ call = "resolveDebugConfigurationWithSubstitutedVariables" /\ pc = "start"
    /\ ~MissingType(cfg)
    /\ cfg["request"] = "launch"
    /\ UNCHANGED process
    /\ LET c == LaunchDefaults(WithBrokeredServicePipeName(cfg))
       IN  /\ HasEnvFile(c)
           /\ \E file \in EnvFiles :
                 /\ file.readable
                 /\ envFileRead' = file
                 /\ LET parsedFile == CreateFromFile(file, InitialEnv(c))
                    IN  IF Truthy(parsedFile.Warning)
                        THEN ReturnConfiguration(WithParsedEnv(c), parsedFile.Env,
                                 <<"CreateFromFile", "showWarningMessage:envFile">>, "shown")
                        ELSE ReturnConfiguration(WithParsedEnv(c), parsedFile.Env,
                                 <<"CreateFromFile">>, warnPc)

\* lines 139-141: the envFile cannot be read
ResolveLaunchEnvFileThrows ==
    /\ call = "resolveDebugConfigurationWithSubstitutedVariables" /\ pc = "start"
    /\ ~MissingType(cfg)
    /\ cfg["request"] = "launch"
    /\ UNCHANGED process
    /\ LET c == LaunchDefaults(WithBrokeredServicePipeName(cfg))
       IN  /\ HasEnvFile(c)
           /\ \E file \in EnvFiles :
                 /\ ~file.readable
                 /\ envFileRead' = file
                 /\ Abort(c, "threw", <<"CreateFromFile", "throw">>)

\* lines 73, 110-120: neither a launch nor an attach request that needs a process
ResolveOther ==
    /\ call = "resolveDebugConfigurationWithSubstitutedVariables" /\ pc = "start"
    /\ ~MissingType(cfg)
    /\ cfg["request"] # "launch"
    /\ ~NeedsProcess(cfg)
    /\ UNCHANGED <<process, envFileRead>>
    /\ ReturnConfiguration(WithBrokeredServicePipeName(cfg), env, <<>>, warnPc)

\* lines 73-82: the picker is opened and awaited
ShowAttachEntries ==
    /\ call = "resolveDebugConfigurationWithSubstitutedVariables" /\ pc = "start"
    /\ ~MissingType(cfg)
    /\ NeedsProcess(cfg)
    /\ cfg' = WithBrokeredServicePipeName(cfg)
    /\ pc' = "picking"
    /\ log' = Append(log, IF PickerFor(cfg) = "remote"
                          THEN "RemoteAttachPicker.ShowAttachEntries"
                          ELSE "AttachPicker.ShowAttachEntries")
    /\ UNCHANGED <<env, returned, process, envFileRead, result>>
    /\ FlowsUnchanged
    /\ InputsUnchanged

\* lines 84-99, 110-120: the picker returns a process
ProcessPicked ==
    /\ pc = "picking"
    /\ \E item \in Processes :
          /\ process' = item
          /\ UNCHANGED envFileRead
          /\ ReturnConfiguration(WithProcess(cfg, item), env, <<>>, warnPc)

\* lines 100-103: the picker returns undefined
NoProcessPicked ==
    /\ pc = "picking"
    /\ process' = NoProcess
    /\ UNCHANGED envFileRead
    /\ Abort(cfg, "undefined", NoProcessSelected)

----
(***************************************************************************)
(* checkForDevCerts: the detached certificate flow, one action per         *)
(* continuation.                                                           *)
(***************************************************************************)
ResolutionUnchanged == UNCHANGED <<pc, cfg, env, returned, process, envFileRead, result>>

\* the error codes hasDotnetDevCertsHttps may report (Undefined: error is null)
CheckResults ==
    {Undefined, "CertificateNotTrusted", "ErrorNoValidCertificateFound", "CriticalError"}

\* what createSelfSignedCert may return: `failed` is `returnData.error !== null`,
\* message and code are those of returnData.error
NoReturnData == [failed |-> FALSE, message |-> "", code |-> "", stdout |-> ""]

CreateResults ==
    {[failed |-> FALSE, message |-> "", code |-> "", stdout |-> "out-0"],
     [failed |-> TRUE, message |-> "Command failed", code |-> "ErrorCreatingTheCertificate",
      stdout |-> "out-1"],
     [failed |-> TRUE, message |-> "Command cancelled", code |-> "UserCancel", stdout |-> ""]}

\* line 203: no answer to the creation prompt yet
NoAnswer == "<pending>"

\* line 199 offering a certificate after every failed check
OffersCertificateOnAnyError(code) == code # Undefined

\* line 199: the check result that opens the prompt
OffersCertificate(code) ==
    code = "CertificateNotTrusted" \/ code = "ErrorNoValidCertificateFound"

\* the line of line 216 without the stdout
CouldntCreateLineWithoutStdout(data) ==
    [text |-> "Couldn't create self-signed certificate.",
     message |-> data.message, code |-> data.code, stdout |-> ""]

\* line 216: the line appended to the output channel
CouldntCreateLine(data) ==
    [text |-> "Couldn't create self-signed certificate.",
     message |-> data.message, code |-> data.code, stdout |-> data.stdout]

\* lines 216-219: what a failed creation reports, in order
ReportCreateFailure == <<"appendLine", "showWarningMessage:createFailed">>

\* lines 197-207: the check returns and the prompt is shown
CheckOffersCertificate ==
    /\ certPc = "checking"
    /\ \E code \in CheckResults :
          /\ OffersCertificate(code)
          /\ errorCode' = code
    /\ dialogResult' = NoAnswer
    /\ certPc' = "prompt"
    /\ log' = Append(log, "showInformationMessage:createCertificate")
    /\ UNCHANGED <<returnData, outputChannel, warnPc>>
    /\ ResolutionUnchanged /\ InputsUnchanged

\* lines 197-199, 230: the check returns anything else
CheckEnds ==
    /\ certPc = "checking"
    /\ \E code \in CheckResults :
          /\ ~OffersCertificate(code)
          /\ errorCode' = code
    /\ UNCHANGED dialogResult
    /\ certPc' = "done"
    /\ UNCHANGED <<returnData, outputChannel, warnPc, log>>
    /\ ResolutionUnchanged /\ InputsUnchanged

\* lines 208-209: "Yes"
AnswerYes ==
    /\ certPc = "prompt"
    /\ dialogResult' = "Yes"
    /\ certPc' = "creating"
    /\ log' = Append(log, "createSelfSignedCert")
    /\ UNCHANGED <<errorCode, returnData, outputChannel, warnPc>>
    /\ ResolutionUnchanged /\ InputsUnchanged

\* lines 225-229: "More Information"
AnswerMoreInformation ==
    /\ certPc = "prompt"
    /\ Count("openExternal") < MaxMoreInfo
    /\ dialogResult' = "More Information"
    /\ certPc' = "checking"
    /\ log' = log \o <<"openExternal", "hasDotnetDevCertsHttps">>
    /\ UNCHANGED <<errorCode, returnData, outputChannel, warnPc>>
    /\ ResolutionUnchanged /\ InputsUnchanged

\* lines 208, 225: "Not Now", or the prompt is dismissed
AnswerNotNow ==
    /\ certPc = "prompt"
    /\ dialogResult' \in {"Not Now", Undefined}
    /\ certPc' = "done"
    /\ UNCHANGED <<errorCode, returnData, outputChannel, warnPc, log>>
    /\ ResolutionUnchanged /\ InputsUnchanged

\* lines 210-214 with the certificate checked again after its creation
CreateSucceedsAndChecks ==
    /\ certPc = "creating"
    /\ \E data \in CreateResults :
          /\ ~data.failed
          /\ returnData' = data
    /\ certPc' = "done"
    /\ log' = log \o <<"showInformationMessage:created", "hasDotnetDevCertsHttps">>
    /\ UNCHANGED <<errorCode, dialogResult, outputChannel, warnPc>>
    /\ ResolutionUnchanged /\ InputsUnchanged

\* lines 210-214: the certificate was created
CreateSucceeds ==
    /\ certPc = "creating"
    /\ \E data \in CreateResults :
          /\ ~data.failed
          /\ returnData' = data
    /\ certPc' = "done"
    /\ log' = Append(log, IF errorCode = "CertificateNotTrusted"
                          THEN "showInformationMessage:trusted"
                          ELSE "showInformationMessage:created")
    /\ UNCHANGED <<errorCode, dialogResult, outputChannel, warnPc>>
    /\ ResolutionUnchanged /\ InputsUnchanged

\* lines 215-219: the creation failed
CreateFails ==
    /\ certPc = "creating"
    /\ \E data \in CreateResults :
          /\ data.failed
          /\ returnData' = data
          /\ outputChannel' = Append(outputChannel, CouldntCreateLine(data))
    /\ certPc' = "warning"
    /\ log' = log \o ReportCreateFailure
    /\ UNCHANGED <<errorCode, dialogResult, warnPc>>
    /\ ResolutionUnchanged /\ InputsUnchanged

\* lines 220-222: the warning is answered
AnswerWarning ==
    /\ certPc = "warning"
    /\ certPc' = "done"
    /\ \E showOutput \in BOOLEAN :
          log' = IF showOutput THEN Append(log, "outputChannel.show") ELSE log
    /\ UNCHANGED <<errorCode, dialogResult, returnData, outputChannel, warnPc>>
    /\ ResolutionUnchanged /\ InputsUnchanged

(***************************************************************************)
(* showFileWarningAsync: the detached envFile warning.                     *)
(***************************************************************************)
\* lines 151-153: the warning is answered
AnswerFileWarning ==
    /\ warnPc = "shown"
    /\ \E open \in BOOLEAN :
          /\ warnPc' = IF open THEN "opening" ELSE "done"
          /\ log' = IF open THEN Append(log, "openTextDocument") ELSE log
    /\ UNCHANGED <<certPc, errorCode, dialogResult, returnData, outputChannel>>
    /\ ResolutionUnchanged /\ InputsUnchanged

\* lines 153-154: the document is opened and shown
ShowTextDocument ==
    /\ warnPc = "opening"
    /\ warnPc' = "done"
    /\ log' = Append(log, "showTextDocument")
    /\ UNCHANGED <<certPc, errorCode, dialogResult, returnData, outputChannel>>
    /\ ResolutionUnchanged /\ InputsUnchanged

----
(***************************************************************************)
(* The inputs explored.  Each family varies the keys and the host facts    *)
(* that one part of the resolver reads, the other keys being absent.       *)
(***************************************************************************)
Hosts(platforms, remotes, uiKinds, folders, pipes) ==
    {[platform |-> p[1], architecture |-> p[2], remoteName |-> r, uiKind |-> u,
      folder |-> f, brokeredServicePipeName |-> b] :
        p \in platforms, r \in remotes, u \in uiKinds, f \in folders, b \in pipes}

Platforms ==
    {<<"linux", "x86_64">>, <<"win32", "x86_64">>, <<"darwin", "x86_64">>, <<"darwin", "arm64">>}

\* the platform and remote conditions of the certificate check
GateConfigs ==
    {[EmptyConfig EXCEPT !["type"] = t, !["request"] = r, !["pipeTransport"] = p,
                         !["checkForDevCert"] = d, !["serverReadyAction"] = a,
                         !["processId"] = "42"] :
        t \in {Absent, "", "coreclr", "clr"}, r \in {Absent, "launch", "attach"},
        p \in {Absent, Obj}, d \in {Absent, "false", "true"}, a \in {Absent, Obj}}

GateHosts ==
    Hosts({<<"linux", "x86_64">>, <<"win32", "x86_64">>, <<"darwin", "arm64">>},
          {Undefined, "ssh-remote"}, {"Desktop", "Web"}, {"/ws"}, {Undefined})

\* launch requests
LaunchConfigs ==
    {[EmptyConfig EXCEPT !["request"] = "launch", !["type"] = t, !["cwd"] = w,
                         !["pipeTransport"] = p, !["internalConsoleOptions"] = i,
                         !["envFile"] = f, !["env"] = e, !["checkForDevCert"] = d] :
        t \in {Absent, "coreclr"}, w \in {Absent, "", "/proj"}, p \in {Absent, Obj},
        i \in {Absent, Null, "neverOpen"}, f \in {Absent, "", ".env"},
        e \in {Absent, Obj}, d \in {Absent, "true"}}

LaunchHosts ==
    Hosts({<<"linux", "x86_64">>}, {Undefined}, {"Desktop"}, {Undefined, "/ws"},
          {Undefined, "pipe-1"})
    \cup Hosts({<<"win32", "x86_64">>}, {Undefined}, {"Desktop"}, {"/ws"}, {Undefined})

\* attach requests
AttachConfigs ==
    {[EmptyConfig EXCEPT !["request"] = "attach", !["type"] = t, !["pipeTransport"] = p,
                         !["processId"] = i, !["processName"] = n,
                         !["targetArchitecture"] = a, !["checkForDevCert"] = d] :
        t \in {Absent, "coreclr", "clr"}, p \in {Absent, Obj}, i \in {Absent, "", "42"},
        n \in {Absent, "", "dotnet"}, a \in {Absent, "x86_64"}, d \in {Absent, "true"}}

AttachHosts == Hosts(Platforms, {Undefined}, {"Desktop"}, {"/ws"}, {Undefined, "pipe-1"})

\* configurations handed to resolveDebugConfiguration
RawConfigs ==
    {[EmptyConfig EXCEPT !["type"] = t, !["cwd"] = w, !["console"] = c, !["justMyCode"] = j] :
        t \in {Absent, "coreclr"}, w \in {Absent, "/proj"},
        c \in {Absent, "externalTerminal"}, j \in {Absent, "false"}}

SettingsKeys == {"console", "justMyCode", "cwd"}

SettingsValues ==
    {[t |-> "string", v |-> ""], [t |-> "string", v |-> "integratedTerminal"],
     [t |-> "boolean", v |-> "false"], [t |-> "array", v |-> "[]"],
     [t |-> "object", v |-> "{}"], [t |-> "object", v |-> Obj], [t |-> "null", v |-> Null]}

\* the keys of a settings object with n keys, in their order
KeySequences(n) ==
    {ks \in [1..n -> SettingsKeys] : \A i, j \in 1..n : i # j => ks[i] # ks[j]}

\* the entries of a settings object: at most MaxSettings, their keys distinct
SettingsObjects ==
    UNION {{[i \in 1..n |-> [key |-> ks[i], t |-> vs[i].t, v |-> vs[i].v]] :
               ks \in KeySequences(n), vs \in [1..n -> SettingsValues]} :
           n \in 0..MaxSettings}

NoSettings == [defined |-> TRUE, entries |-> <<>>]

\* the other components before they are called
NotCalled == [kind |-> "pending", value |-> <<>>]

InputEnv(c) == IF c["env"] = Obj THEN {<<"B", "2">>} ELSE {}

Start(entry, c, h, s) ==
    /\ call = entry
    /\ pc = "start"
    /\ cfg = c
    /\ env = InputEnv(c)
    /\ input = [cfg |-> c, env |-> InputEnv(c)]
    /\ returned = NoSnapshot
    /\ settings = s
    /\ host = h
    /\ process = NotPicked
    /\ envFileRead = NoFile
    /\ result = "pending"
    /\ certPc = "none"
    /\ errorCode = Undefined
    /\ dialogResult = NoAnswer
    /\ returnData = NoReturnData
    /\ outputChannel = <<>>
    /\ warnPc = "none"
    /\ log = <<>>

\* the option-name converter is not called
ConverterNotCalled == section = <<>> /\ converted = NotCalled

\* the folding-range provider is not called
StructureProviderNotCalled == response = NotCalled /\ foldingRanges = NotCalled

\* one of the two entry points of the provider is called
ProviderCalled ==
    \/ \E c \in GateConfigs, h \in GateHosts :
          Start("resolveDebugConfigurationWithSubstitutedVariables", c, h, NoSettings)
    \/ \E c \in LaunchConfigs, h \in LaunchHosts :
          Start("resolveDebugConfigurationWithSubstitutedVariables", c, h, NoSettings)
    \/ \E c \in AttachConfigs, h \in AttachHosts :
          Start("resolveDebugConfigurationWithSubstitutedVariables", c, h, NoSettings)
    \/ \E c \in RawConfigs, s \in SettingsObjects, h \in GateHosts :
          /\ h.platform = "linux" /\ h.remoteName = Undefined /\ h.uiKind = "Desktop"
          /\ Start("resolveDebugConfiguration", c, h, [defined |-> TRUE, entries |-> s])
    \/ \E c \in RawConfigs, h \in GateHosts :
          /\ h.platform = "linux" /\ h.remoteName = Undefined /\ h.uiKind = "Desktop"
          /\ Start("resolveDebugConfiguration", c, h, [defined |-> FALSE, entries |-> <<>>])

Init == ProviderCalled /\ ConverterNotCalled /\ StructureProviderNotCalled

Next ==
    \/ ResolveEmptyConfiguration
    \/ ResolveDebugConfiguration
    \/ ResolveDebugConfigurationThrows
    \/ ReturnNull
    \/ ResolveLaunch
    \/ ResolveLaunchWithEnvFile
    \/ ResolveLaunchEnvFileThrows
    \/ ResolveOther
    \/ ShowAttachEntries
    \/ ProcessPicked
    \/ NoProcessPicked
    \/ CheckOffersCertificate
    \/ CheckEnds
    \/ AnswerYes
    \/ AnswerMoreInformation
    \/ AnswerNotNow
    \/ CreateSucceeds
    \/ CreateFails
    \/ AnswerWarning
    \/ AnswerFileWarning
    \/ ShowTextDocument

Spec == Init /\ [][Next]_vars

----
(***************************************************************************)
(* Properties of resolveDebugConfigurationWithSubstitutedVariables.        *)
(***************************************************************************)
Resolving == call = "resolveDebugConfigurationWithSubstitutedVariables"

PickerOpened ==
    Happened("RemoteAttachPicker.ShowAttachEntries") \/ Happened("AttachPicker.ShowAttachEntries")

UnsupportedHost ==
    host.platform = "linux" \/ Truthy(host.remoteName) \/ host.uiKind = "Web"

\* C1: on Linux, with a remote name set, or in the Web UI, hasDotnetDevCertsHttps
\* is never called and the certificate flow never starts, whatever the
\* configuration says, checkForDevCert: true included.
C1_NoCertCheckOnUnsupportedHost ==
    UnsupportedHost => (~Happened("hasDotnetDevCertsHttps") /\ certPc = "none")

\* C1 witness: a configuration with checkForDevCert: true and no pipeTransport
\* was resolved in the Web UI of a local Windows or macOS host.
C1_Witness ==
    /\ Resolving /\ result = "config"
    /\ host.uiKind = "Web" /\ host.platform # "linux" /\ ~Truthy(host.remoteName)
    /\ input.cfg["checkForDevCert"] = "true"
    /\ ~Truthy(input.cfg["pipeTransport"])

\* C2 as stated: an attach request that has a processId or a processName key
\* opens no picker and is returned with both as they were.
C2_Original ==
    (/\ Resolving
     /\ input.cfg["request"] = "attach"
     /\ (HasOwnProperty(input.cfg, "processId") \/ HasOwnProperty(input.cfg, "processName")))
    => /\ ~PickerOpened
       /\ pc # "picking"
       /\ result = "config" =>
             /\ cfg["processId"] = input.cfg["processId"]
             /\ cfg["processName"] = input.cfg["processName"]

\* C2 amended: an attach request whose processId or processName is non-empty
\* opens no picker, and the configuration returned has processId and
\* processName as they were on input.
C2_AttachKeepsGivenProcess ==
    (/\ Resolving
     /\ input.cfg["request"] = "attach"
     /\ (Truthy(input.cfg["processId"]) \/ Truthy(input.cfg["processName"])))
    => /\ ~PickerOpened
       /\ pc # "picking"
       /\ process = NotPicked
       /\ result = "config" =>
             /\ cfg["processId"] = input.cfg["processId"]
             /\ cfg["processName"] = input.cfg["processName"]

\* C2 witness: an attach request naming a process by name only was returned.
C2_Witness ==
    /\ Resolving /\ result = "config"
    /\ input.cfg["request"] = "attach"
    /\ input.cfg["processName"] = "dotnet"
    /\ ~Truthy(input.cfg["processId"])

\* C3: when the picker returns no process, the modal error dialog is shown,
\* once and before the return; the call returns undefined; processId is not
\* set; and the certificate check is not started.
C3_NoProcessAborts ==
    (Resolving /\ process = NoProcess)
    => /\ pc = "done" /\ result = "undefined"
       /\ Count("showErrorMessage:modal") = 1
       /\ Count("return:undefined") = 1
       /\ Precedes("showErrorMessage:modal", "return:undefined")
       /\ cfg["processId"] = input.cfg["processId"]
       /\ ~Truthy(cfg["processId"])
       /\ ~Happened("hasDotnetDevCertsHttps")
       /\ certPc = "none"

\* C3 witness: the picker returned no process for a request that asks for
\* the certificate check on a host where the check is possible.
C3_Witness ==
    /\ Resolving /\ process = NoProcess
    /\ input.cfg["checkForDevCert"] = "true"
    /\ ~Truthy(input.cfg["pipeTransport"])
    /\ ~UnsupportedHost

\* C4 as stated: a configuration returned by the resolution has a request and
\* a type.
C4_Original ==
    (Resolving /\ result = "config")
    => (HasOwnProperty(cfg, "request") /\ HasOwnProperty(cfg, "type"))

\* C4 amended: a configuration returned by
\* resolveDebugConfigurationWithSubstitutedVariables has a non-empty type; its
\* request is the one of the input, which may be absent.
C4_ReturnedConfigurationHasType ==
    (Resolving /\ result = "config")
    => /\ Truthy(cfg["type"])
       /\ cfg["type"] = input.cfg["type"]
       /\ cfg["request"] = input.cfg["request"]

\* C4 witness: a configuration with a type and no request was returned.
C4_Witness ==
    /\ Resolving /\ result = "config"
    /\ cfg["type"] = "coreclr"
    /\ ~HasOwnProperty(cfg, "request")

\* C5: a configuration with no type is answered by null (never a
\* configuration, undefined or an error) and nothing else happens: no dialog,
\* picker, envFile read or certificate check, and the configuration stays as
\* it was passed in.
C5_MissingTypeReturnsNullSilently ==
    (Resolving /\ ~Truthy(input.cfg["type"]))
    => /\ cfg = input.cfg /\ env = input.env
       /\ pc = "done" => result = "null"
       /\ pc \in {"start", "done"}
       /\ log = IF pc = "done" THEN <<"return:null">> ELSE <<>>
       /\ certPc = "none" /\ warnPc = "none" /\ process = NotPicked

\* C5 witness: null was returned for an attach request that names no process
\* and has checkForDevCert: true, on a host where the check is possible and a
\* brokered service pipe name exists.
C5_Witness ==
    /\ Resolving /\ result = "null"
    /\ input.cfg["request"] = "attach"
    /\ ~Truthy(input.cfg["processId"]) /\ ~Truthy(input.cfg["processName"])
    /\ input.cfg["checkForDevCert"] = "true"
    /\ ~Truthy(input.cfg["pipeTransport"])
    /\ ~UnsupportedHost
    /\ host.brokeredServicePipeName = "pipe-1"

PickerCalls ==
    Count("RemoteAttachPicker.ShowAttachEntries") + Count("AttachPicker.ShowAttachEntries")

\* the calls of ev made before the entry point returned
CountBeforeReturn(ev) ==
    Cardinality({i \in DOMAIN log : /\ log[i] = ev
                                    /\ \A j \in 1..i : log[j] # "return:config"})

\* C6 as stated: the envFile is parsed at most once, a picker is opened at most
\* once and hasDotnetDevCertsHttps is called at most once, whatever is answered.
C6_Original ==
    /\ Count("CreateFromFile") <= 1
    /\ PickerCalls <= 1
    /\ Count("hasDotnetDevCertsHttps") <= 1

\* C6 amended: the envFile is parsed at most once and a picker is opened at
\* most once; the resolution call itself calls hasDotnetDevCertsHttps at most
\* once, and the detached certificate flow calls it once more for every
\* "More Information" answer, and never otherwise.
C6_OnceExceptMoreInformation ==
    /\ Count("CreateFromFile") <= 1
    /\ PickerCalls <= 1
    /\ CountBeforeReturn("hasDotnetDevCertsHttps") <= 1
    /\ Count("hasDotnetDevCertsHttps")
          = CountBeforeReturn("hasDotnetDevCertsHttps") + Count("openExternal")
    /\ Count("createSelfSignedCert") <= 1

\* C6 witness: "More Information" was answered twice and the certificate was
\* then created: three checks, one creation.
C6_Witness ==
    /\ Count("openExternal") = 2
    /\ Count("hasDotnetDevCertsHttps") = 3
    /\ Happened("showInformationMessage:created")

CertFlowEvents ==
    {"showInformationMessage:createCertificate", "createSelfSignedCert", "openExternal",
     "showInformationMessage:trusted", "showInformationMessage:created", "appendLine",
     "showWarningMessage:createFailed", "outputChannel.show"}

\* C7: once checkForDevCerts was called the configuration has been returned:
\* the check's result, the prompt, the creation and its report all come after
\* the return, and the configuration stays what was returned whatever their
\* outcome.
C7_CertCheckIsFireAndForget ==
    certPc # "none"
    => /\ pc = "done" /\ result = "config"
       /\ cfg = returned.cfg /\ env = returned.env
       /\ Count("return:config") = 1
       /\ \A i \in DOMAIN log :
             log[i] \in CertFlowEvents => \E j \in 1..(i - 1) : log[j] = "return:config"

\* C7 witness: after the return the check failed, the user answered "Yes"
\* and the creation failed.
C7_Witness ==
    /\ result = "config"
    /\ certPc = "warning"
    /\ returnData.failed

\* C8 as stated: a failed creation is reported through the output channel
\* only, so no dialog reports it.
C8_Original ==
    returnData.failed
    => /\ Len(outputChannel) = 1
       /\ ~Happened("showWarningMessage:createFailed")

\* C8 amended: a failure of the certificate tooling raises nothing out of the
\* flow or of the resolution; a failed check is reported nowhere; a failed
\* creation appends one line with the error message, code and stdout to the
\* output channel and then shows a warning that offers "Show Output".
C8_CertFailureIsNotFatal ==
    /\ certPc # "none" => (result = "config" /\ ~Happened("throw"))
    /\ Len(outputChannel) = Count("appendLine")
    /\ Count("showWarningMessage:createFailed") = Count("appendLine")
    /\ Precedes("appendLine", "showWarningMessage:createFailed")
    /\ Happened("outputChannel.show") => Happened("showWarningMessage:createFailed")
    /\ IF returnData.failed
       THEN /\ Len(outputChannel) = 1
            /\ outputChannel[1].message = returnData.message
            /\ outputChannel[1].code = returnData.code
            /\ outputChannel[1].stdout = returnData.stdout
       ELSE outputChannel = <<>>

\* C8 witness: the creation failed with a non-empty stdout and the flow ended.
C8_Witness ==
    /\ returnData.failed
    /\ returnData.stdout = "out-1"
    /\ certPc = "done"
    /\ result = "config"

\* C8 second case: the check itself failed with another code; nothing is
\* reported and the flow ends.
C8_CheckFailureWitness ==
    /\ errorCode = "CriticalError"
    /\ certPc = "done"
    /\ outputChannel = <<>>

(***************************************************************************)
(* Properties of resolveDebugConfiguration.                                *)
(***************************************************************************)
Merging == call = "resolveDebugConfiguration"

\* the settings hold `key` with the coded value v
InSettings(key, v) ==
    \E i \in DOMAIN settings.entries :
        settings.entries[i].key = key /\ settings.entries[i].v = v

\* C9: the merge leaves every key of the input configuration at its input
\* value; a key it adds is a key of the settings, with the settings' value,
\* that the input did not have and that is not "console".
C9_MergeKeepsExplicitKeys ==
    Merging
    => \A k \in Keys :
          /\ HasOwnProperty(input.cfg, k) => cfg[k] = input.cfg[k]
          /\ cfg[k] # input.cfg[k]
                => /\ ~HasOwnProperty(input.cfg, k)
                   /\ k # "console"
                   /\ InSettings(k, cfg[k])
          /\ k = "console" => cfg[k] = input.cfg[k]

\* C9 witness: the settings hold console, cwd and justMyCode; the input has cwd
\* and neither console nor justMyCode; justMyCode alone was copied.
C9_Witness ==
    /\ Merging /\ result = "config"
    /\ InSettings("console", "integratedTerminal")
    /\ InSettings("cwd", "integratedTerminal")
    /\ InSettings("justMyCode", "false")
    /\ input.cfg["cwd"] = "/proj"
    /\ ~HasOwnProperty(input.cfg, "console")
    /\ ~HasOwnProperty(input.cfg, "justMyCode")
    /\ cfg["justMyCode"] = "false"
    /\ cfg["cwd"] = "/proj"
    /\ ~HasOwnProperty(cfg, "console")

(***************************************************************************)
(* Properties of the launch defaults.                                      *)
(***************************************************************************)
Launched == Resolving /\ result = "config" /\ input.cfg["request"] = "launch"

\* C10 as stated: cwd becomes the folder path exactly when the cwd key is
\* absent and no pipeTransport is configured, and is otherwise unchanged;
\* internalConsoleOptions becomes "openOnSessionStart" when it has no value
\* and is otherwise unchanged.
C10_Original ==
    Launched
    => /\ IF ~HasOwnProperty(input.cfg, "cwd") /\ ~Truthy(input.cfg["pipeTransport"])
          THEN cfg["cwd"] = host.folder
          ELSE cfg["cwd"] = input.cfg["cwd"]
       /\ IF IsNullish(input.cfg["internalConsoleOptions"])
          THEN cfg["internalConsoleOptions"] = "openOnSessionStart"
          ELSE cfg["internalConsoleOptions"] = input.cfg["internalConsoleOptions"]

\* C10 amended: cwd becomes the folder path exactly when cwd is absent or
\* empty and no pipeTransport is configured, and is otherwise unchanged;
\* internalConsoleOptions becomes "openOnSessionStart" when it is absent or
\* null and is otherwise unchanged.
C10_LaunchDefaults ==
    Launched
    => /\ IF ~Truthy(input.cfg["cwd"]) /\ ~Truthy(input.cfg["pipeTransport"])
          THEN cfg["cwd"] = host.folder
          ELSE cfg["cwd"] = input.cfg["cwd"]
       /\ IF IsNullish(input.cfg["internalConsoleOptions"])
          THEN cfg["internalConsoleOptions"] = "openOnSessionStart"
          ELSE cfg["internalConsoleOptions"] = input.cfg["internalConsoleOptions"]

\* C10 witness: a launch with an empty cwd, no pipeTransport and an
\* internalConsoleOptions of its own was returned with the folder path as cwd.
C10_Witness ==
    /\ Launched
    /\ input.cfg["cwd"] = ""
    /\ ~Truthy(input.cfg["pipeTransport"])
    /\ input.cfg["internalConsoleOptions"] = "neverOpen"
    /\ cfg["cwd"] = "/ws"
    /\ cfg["internalConsoleOptions"] = "neverOpen"

\* C10 second case: with a pipeTransport the absent cwd stays absent.
C10_PipeTransportWitness ==
    /\ Launched
    /\ ~HasOwnProperty(input.cfg, "cwd")
    /\ Truthy(input.cfg["pipeTransport"])
    /\ ~HasOwnProperty(cfg, "cwd")
    /\ cfg["internalConsoleOptions"] = "openOnSessionStart"

(***************************************************************************)
(* Properties of the envFile merge.                                        *)
(***************************************************************************)
\* a launch request with a type and a non-empty envFile, and the call is over
LaunchedWithEnvFile ==
    /\ Resolving /\ pc = "done"
    /\ input.cfg["request"] = "launch"
    /\ Truthy(input.cfg["type"])
    /\ HasOwnProperty(input.cfg, "envFile") /\ input.cfg["envFile"] # ""

\* the variables the file sets: the KEY=VALUE of the last line that names KEY
FileVars(file) ==
    {<<file.lines[i].key, file.lines[i].value>> : i \in
        {i \in DOMAIN file.lines :
            /\ file.lines[i].ok
            /\ \A j \in DOMAIN file.lines :
                  (j > i /\ file.lines[j].ok) => file.lines[j].key # file.lines[i].key}}

SomeLineParses(file) == \E i \in DOMAIN file.lines : file.lines[i].ok
SomeLineMalformed(file) == \E i \in DOMAIN file.lines : ~file.lines[i].ok

AttachedToPicked == Resolving /\ pc = "done" /\ process.is = "item"

MacArm64 == host.platform = "darwin" /\ host.architecture = "arm64"

FromFlags(flags) == IF IsTranslated(flags) THEN "x86_64" ELSE "arm64"

\* C12 as stated: after the picker returned a process, on macOS arm64
\* targetArchitecture follows bit 0x20000 of the process flags, and on every
\* other platform and architecture it is left as it was in the input.
C12_Original ==
    AttachedToPicked
    => cfg["targetArchitecture"] =
          IF MacArm64 THEN FromFlags(process.flags)
                      ELSE input.cfg["targetArchitecture"]

\* C12 amended: after the picker returned a process, processId is the id of
\* the process; when the type is "coreclr" and the platform is macOS arm64,
\* targetArchitecture is "x86_64" if bit 0x20000 of the process flags is set
\* and "arm64" otherwise; for every other type, platform or architecture
\* targetArchitecture is left as it was in the input.
C12_TargetArchitectureFromFlags ==
    AttachedToPicked
    => /\ result = "config"
       /\ cfg["processId"] = process.id
       /\ cfg["targetArchitecture"] =
             IF cfg["type"] = "coreclr" /\ MacArm64
             THEN FromFlags(process.flags)
             ELSE input.cfg["targetArchitecture"]

\* C12 witness: a coreclr attach on macOS arm64 picked a translated process
\* (bit 0x20000 set among other bits) and got "x86_64" where the input had no
\* targetArchitecture.
C12_Witness ==
    /\ AttachedToPicked /\ MacArm64
    /\ input.cfg["type"] = "coreclr"
    /\ process.flags = P_TRANSLATED + 4
    /\ ~HasOwnProperty(input.cfg, "targetArchitecture")
    /\ cfg["targetArchitecture"] = "x86_64"

\* C12 second witness: an untranslated process replaces a given "x86_64"
C12_NativeWitness ==
    /\ AttachedToPicked /\ MacArm64
    /\ process.flags = 4
    /\ input.cfg["targetArchitecture"] = "x86_64"
    /\ cfg["targetArchitecture"] = "arm64"

(***************************************************************************)
(* Properties of the certificate creation offer.                           *)
(***************************************************************************)
\* the two check results of line 199
SentinelCodes == {"CertificateNotTrusted", "ErrorNoValidCertificateFound"}

\* every occurrence of `later` in the log has an occurrence of `earlier` before it
OnlyAfter(earlier, later) ==
    \A i \in DOMAIN log :
        log[i] = later => \E j \in 1..(i - 1) : log[j] = earlier

\* the prompt is on screen or was answered "Yes", and the check before it
\* reported one of the two codes
PromptOnlyAfterSentinel ==
    /\ OnlyAfter("hasDotnetDevCertsHttps", "showInformationMessage:createCertificate")
    /\ Count("showInformationMessage:createCertificate") <= Count("hasDotnetDevCertsHttps")
    /\ certPc \in {"prompt", "creating"} => errorCode \in SentinelCodes
    /\ errorCode \notin SentinelCodes
          => certPc \notin {"prompt", "creating"}

\* the certificate is created only after the prompt was answered "Yes"
CreateOnlyAfterYes ==
    /\ OnlyAfter("showInformationMessage:createCertificate", "createSelfSignedCert")
    /\ Happened("createSelfSignedCert")
          => /\ dialogResult = "Yes"
             /\ errorCode \in SentinelCodes
             /\ Count("createSelfSignedCert") = 1
    /\ certPc = "creating" => Happened("createSelfSignedCert")

\* C17 as stated: the prompt is shown only after the check reported one of
\* the two codes, the certificate is created only after the prompt was
\* answered "Yes", and once a prompt was answered "Not Now" or "More
\* Information" or dismissed, no creation is ever attempted.
C17_Original ==
    /\ PromptOnlyAfterSentinel
    /\ CreateOnlyAfterYes
    /\ (Happened("openExternal") \/ dialogResult \in {"Not Now", "More Information", Undefined})
          => ~Happened("createSelfSignedCert")

\* C17 amended: the prompt is shown only after the check reported one of the
\* two codes; the certificate is created only after the prompt was answered
\* "Yes", and at most once; a check with another result, and a prompt that
\* is answered "Not Now" or dismissed, end the flow with no creation; "More
\* Information" creates nothing itself but runs the check again, and a
\* creation can follow only from a "Yes" to a prompt shown again.
C17_CreateOnlyAfterPromptAnsweredYes ==
    /\ PromptOnlyAfterSentinel
    /\ CreateOnlyAfterYes
    /\ dialogResult \in {"Not Now", Undefined}
          => certPc = "done" /\ ~Happened("createSelfSignedCert")
    /\ (certPc = "done" /\ errorCode \notin SentinelCodes)
          => ~Happened("createSelfSignedCert")
    /\ dialogResult = "More Information"
          => /\ certPc \in {"checking", "done"}
             /\ ~Happened("createSelfSignedCert")
             /\ Count("hasDotnetDevCertsHttps") = Count("openExternal") + 1
    /\ Happened("createSelfSignedCert")
          => Count("showInformationMessage:createCertificate") = Count("openExternal") + 1

\* C17 witness: the check reported that no valid certificate was found, the
\* prompt was answered "Yes", and the certificate was created.
C17_Witness ==
    /\ errorCode = "ErrorNoValidCertificateFound"
    /\ dialogResult = "Yes"
    /\ Count("createSelfSignedCert") = 1
    /\ Precedes("showInformationMessage:createCertificate", "createSelfSignedCert")
    /\ certPc = "done"

\* C17 second witness: "More Information", then "Yes" to the prompt shown again
C17_MoreInformationThenYesWitness ==
    /\ Happened("openExternal")
    /\ dialogResult = "Yes"
    /\ Happened("createSelfSignedCert")

\* C17 third witness: the prompt was dismissed and the flow is over
C17_DismissedWitness ==
    /\ dialogResult = Undefined /\ certPc = "done"
    /\ Happened("showInformationMessage:createCertificate")

----
(***************************************************************************)
(* convertServerOptionNameToClientConfigurationName                        *)
(* (src/src/lsptoolshost/OptionNameConverter.ts).  A string is a sequence  *)
(* of one-character strings; indexes are those of JavaScript (from 0).     *)
(***************************************************************************)
Lowercase ==
    <<"a", "b", "c", "d", "e", "f", "g", "h", "i", "j", "k", "l", "m",
      "n", "o", "p", "q", "r", "s", "t", "u", "v", "w", "x", "y", "z">>

Uppercase ==
    <<"A", "B", "C", "D", "E", "F", "G", "H", "I", "J", "K", "L", "M",
      "N", "O", "P", "Q", "R", "S", "T", "U", "V", "W", "X", "Y", "Z">>

\* the position of ch in a, or 0
PlaceIn(a, ch) ==
    IF \E i \in DOMAIN a : a[i] = ch THEN CHOOSE i \in DOMAIN a : a[i] = ch ELSE 0

\* String.prototype.toLowerCase
toLowerCase(str) ==
    [i \in DOMAIN str |->
        IF PlaceIn(Uppercase, str[i]) # 0 THEN Lowercase[PlaceIn(Uppercase, str[i])] ELSE str[i]]

\* String.prototype.toUpperCase
toUpperCase(str) ==
    [i \in DOMAIN str |->
        IF PlaceIn(Lowercase, str[i]) # 0 THEN Uppercase[PlaceIn(Lowercase, str[i])] ELSE str[i]]

\* String.prototype.indexOf for a one-character search string
indexOf(str, ch) ==
    IF \E i \in DOMAIN str : str[i] = ch
    THEN (CHOOSE i \in DOMAIN str : str[i] = ch /\ \A j \in 1..(i - 1) : str[j] # ch) - 1
    ELSE -1

\* String.prototype.lastIndexOf for a one-character search string
lastIndexOf(str, ch) ==
    IF \E i \in DOMAIN str : str[i] = ch
    THEN (CHOOSE i \in DOMAIN str : str[i] = ch /\ \A j \in (i + 1)..Len(str) : str[j] # ch) - 1
    ELSE -1

\* String.prototype.substring(start, end): both ends are clamped to the
\* string and swapped when start is after end
substring(str, start, end) ==
    LET clamp(n) == IF n < 0 THEN 0 ELSE IF n > Len(str) THEN Len(str) ELSE n
        lo == IF clamp(start) <= clamp(end) THEN clamp(start) ELSE clamp(end)
        hi == IF clamp(start) <= clamp(end) THEN clamp(end) ELSE clamp(start)
    IN  SubSeq(str, lo + 1, hi)

\* String.prototype.substring(start)
substringFrom(str, start) == substring(str, start, Len(str))

\* String.prototype.startsWith
startsWith(str, searchString) ==
    /\ Len(searchString) <= Len(str)
    /\ SubSeq(str, 1, Len(searchString)) = searchString

\* String.prototype.split for a one-character separator: never empty
RECURSIVE split(_, _)
split(str, delimiter) ==
    IF indexOf(str, delimiter) = -1 THEN <<str>>
    ELSE <<substring(str, 0, indexOf(str, delimiter))>>
         \o split(substringFrom(str, indexOf(str, delimiter) + 1), delimiter)

\* String.prototype.concat over a list of strings
RECURSIVE concat(_)
concat(strs) == IF strs = <<>> THEN <<>> ELSE Head(strs) \o concat(Tail(strs))

\* lines 68-70 without the upper-casing of the first character
capitalizeNothing(inputString) == inputString

\* lines 68-70
capitalize(inputString) ==
    toUpperCase(substring(inputString, 0, 1)) \o substringFrom(inputString, 1)

\* lines 57-66
convertToCamelCase(inputString, delimiter) ==
    LET parts == split(inputString, delimiter)
        words == [i \in DOMAIN parts |-> toLowerCase(parts[i])]
    IN  IF Len(words) <= 1
        THEN toLowerCase(inputString)
        ELSE words[1] \o concat([i \in 1..(Len(words) - 1) |-> capitalize(words[i + 1])])

Dotnet == <<"d", "o", "t", "n", "e", "t">>
Csharp == <<"c", "s", "h", "a", "r", "p">>

\* line 29
prefixes == <<Dotnet, Csharp>>

\* lines 45-55: the first prefix the name starts with, or ''
getPrefix(name, possiblePrefixes) ==
    IF \E i \in DOMAIN possiblePrefixes : startsWith(name, possiblePrefixes[i])
    THEN possiblePrefixes[CHOOSE i \in DOMAIN possiblePrefixes :
                            /\ startsWith(name, possiblePrefixes[i])
                            /\ \A j \in 1..(i - 1) : ~startsWith(name, possiblePrefixes[j])]
    ELSE <<>>

\* what a call returns: a string, null, or an AssertionError thrown
ReturnString(str) == [kind |-> "string", value |-> str]
ReturnNullResult == [kind |-> "null", value |-> <<>>]
AssertionError == [kind |-> "AssertionError", value |-> <<>>]

\* line 12 with the language ignored
IsForAnyLanguage(sec, languageNameIndex) == TRUE

\* line 12: the option has no language or is an option of csharp
IsForCsharp(sec, languageNameIndex) ==
    languageNameIndex = -1 \/ substring(sec, 0, languageNameIndex) = Csharp

\* line 15 with assertions off
AssertionNeverFails(lastDotIndex) == FALSE

\* line 15: assert(lastDotIndex !== -1) fails
AssertionFails(lastDotIndex) == ~(lastDotIndex # -1)

\* lines 8-43
convertServerOptionNameToClientConfigurationName(sec) ==
    LET languageNameIndex == indexOf(sec, "|")
    IN  IF IsForCsharp(sec, languageNameIndex)
        THEN LET lastDotIndex == lastIndexOf(sec, ".")
                 optionName == substringFrom(sec, lastDotIndex + 1)
                 startIndex == IF languageNameIndex = -1 THEN 0 ELSE languageNameIndex + 1
                 optionGroupName == substring(sec, startIndex, lastDotIndex)
                 optionNamePrefix == getPrefix(optionName, prefixes)
                 featureName == IF optionNamePrefix = <<>> THEN optionName
                                ELSE substringFrom(optionName, Len(optionNamePrefix) + 1)
                 camelCaseGroupName == convertToCamelCase(optionGroupName, "_")
                 camelCaseFeatureName == convertToCamelCase(featureName, "_")
             IN  IF AssertionFails(lastDotIndex) THEN AssertionError
                 ELSE IF optionNamePrefix = <<>>
                 THEN ReturnString(concat(<<camelCaseGroupName, <<".">>, camelCaseFeatureName>>))
                 ELSE ReturnString(concat(<<convertToCamelCase(optionNamePrefix, "_"), <<".">>,
                                            camelCaseGroupName, <<".">>, camelCaseFeatureName>>))
        ELSE ReturnNullResult

\* the most tokens in a grouping and in a name
MaxTokens == 2

Tokens == {<<"a">>, <<"B">>, <<"_">>, <<".">>}

\* the strings made of at most n tokens
RECURSIVE TokenStrings(_)
TokenStrings(n) ==
    IF n = 0 THEN {<<>>}
    ELSE TokenStrings(n - 1)
         \cup {w \o t : w \in TokenStrings(n - 1), t \in Tokens}

\* no language, csharp, another language, an empty language
Languages == {<<>>, Csharp \o <<"|">>, <<"v", "b", "|">>, <<"|">>}

\* how a name may begin
NameStarts == {<<>>, Dotnet \o <<"_">>, Csharp \o <<"_">>, Dotnet}

\* "csharp|implement_type.dotnet_insertion_behavior"
ImplementTypeSection ==
    <<"c", "s", "h", "a", "r", "p", "|",
      "i", "m", "p", "l", "e", "m", "e", "n", "t", "_", "t", "y", "p", "e", ".",
      "d", "o", "t", "n", "e", "t", "_",
      "i", "n", "s", "e", "r", "t", "i", "o", "n", "_",
      "b", "e", "h", "a", "v", "i", "o", "r">>

Sections ==
    {ImplementTypeSection}
    \cup {concat(<<l, g, d, b, n>>) :
            l \in Languages, g \in TokenStrings(MaxTokens), d \in {<<>>, <<".">>},
            b \in NameStarts, n \in TokenStrings(MaxTokens)}

\* the debug-configuration provider is not called
IdleHost ==
    [platform |-> "linux", architecture |-> "x86_64", remoteName |-> Undefined,
     uiKind |-> "Desktop", folder |-> Undefined, brokeredServicePipeName |-> Undefined]

ProviderNotCalled == Start("none", EmptyConfig, IdleHost, NoSettings)

providerVars ==
    <<call, pc, cfg, env, input, returned, settings, host, process, envFileRead, result,
      certPc, errorCode, dialogResult, returnData, outputChannel, warnPc, log>>

ConverterInit ==
    /\ ProviderNotCalled
    /\ StructureProviderNotCalled
    /\ section \in Sections
    /\ converted = NotCalled

\* one call of the converter
Convert ==
    /\ converted = NotCalled
    /\ converted' = convertServerOptionNameToClientConfigurationName(section)
    /\ UNCHANGED <<section, response, foldingRanges>>
    /\ UNCHANGED providerVars

ConverterNext == Convert

ConverterSpec == ConverterInit /\ [][ConverterNext]_vars

(***************************************************************************)
(* Properties of the option-name conversion.  The parts of a section are   *)
(* read off the section itself, with the indexes of Sequences (from 1).    *)
(***************************************************************************)
Converted == converted # NotCalled

Has(str, ch) == \E i \in DOMAIN str : str[i] = ch

First(str, ch) == CHOOSE i \in DOMAIN str : str[i] = ch /\ \A j \in 1..(i - 1) : str[j] # ch
Last(str, ch) == CHOOSE i \in DOMAIN str : str[i] = ch /\ \A j \in (i + 1)..Len(str) : str[j] # ch

\* the text before the first '|'
LanguagePrefix(sec) == SubSeq(sec, 1, First(sec, "|") - 1)

\* no language, or the language csharp
ForClient(sec) == ~Has(sec, "|") \/ LanguagePrefix(sec) = Csharp

\* "[csharp|]{grouping}.{name}"
WellFormed(sec) == ForClient(sec) /\ Has(sec, ".")

Grouping(sec) ==
    SubSeq(sec, IF Has(sec, "|") THEN First(sec, "|") + 1 ELSE 1, Last(sec, ".") - 1)

Name(sec) == SubSeq(sec, Last(sec, ".") + 1, Len(sec))

\* the prefix a name carries: dotnet, csharp or none
CarriedPrefix(name) ==
    IF startsWith(name, Dotnet) THEN Dotnet
    ELSE IF startsWith(name, Csharp) THEN Csharp ELSE <<>>

\* the name without its first n characters
Without(name, n) == SubSeq(name, n + 1, Len(name))

\* the name without its prefix and without the underscore that separates them
WithoutPrefixAndUnderscore(name) ==
    LET rest == Without(name, Len(CarriedPrefix(name)))
    IN  IF rest # <<>> /\ Head(rest) = "_" THEN Tail(rest) ELSE rest

\* [prefix.]grouping.feature, grouping and feature camel-cased
Joined(prefix, grouping, feature) ==
    (IF prefix = <<>> THEN <<>> ELSE prefix \o <<".">>)
    \o convertToCamelCase(grouping, "_") \o <<".">> \o convertToCamelCase(feature, "_")

\* "dotnet.implementType.insertionBehavior"
ImplementTypeName ==
    <<"d", "o", "t", "n", "e", "t", ".",
      "i", "m", "p", "l", "e", "m", "e", "n", "t", "T", "y", "p", "e", ".",
      "i", "n", "s", "e", "r", "t", "i", "o", "n", "B", "e", "h", "a", "v", "i", "o", "r">>

\* C13 as stated: for "[csharp|]{grouping}.{name}" the result is the
\* camel-cased grouping and name joined by '.', preceded by the prefix the
\* name carries, the feature being the name without the prefix and its
\* separating underscore, no other character dropped.
C13_Original ==
    (Converted /\ WellFormed(section))
    => converted = ReturnString(Joined(CarriedPrefix(Name(section)), Grouping(section),
                      IF CarriedPrefix(Name(section)) = <<>> THEN Name(section)
                      ELSE WithoutPrefixAndUnderscore(Name(section))))

\* C13 amended: for "[csharp|]{grouping}.{name}" the result is the
\* camel-cased grouping and feature joined by '.', preceded by "dotnet." or
\* "csharp." when the name starts with that word; the feature is then the
\* name without the prefix and without the one character after it, whatever
\* that character is; with no prefix the feature is the name.  The result
\* has no underscore, and the example of the documentation holds.
C13_ConvertedName ==
    /\ (Converted /\ WellFormed(section))
          => /\ converted = ReturnString(Joined(CarriedPrefix(Name(section)), Grouping(section),
                                IF CarriedPrefix(Name(section)) = <<>> THEN Name(section)
                                ELSE Without(Name(section), Len(CarriedPrefix(Name(section))) + 1)))
             /\ ~Has(converted.value, "_")
    /\ (Converted /\ section = ImplementTypeSection)
          => converted = ReturnString(ImplementTypeName)

\* C13 witness: the example of the documentation was converted
C13_Witness ==
    /\ section = ImplementTypeSection
    /\ converted = ReturnString(ImplementTypeName)

\* C13 second witness: "csharp|a.dotneta_" loses the "a" after the prefix
C13_DroppedCharacterWitness ==
    /\ section = concat(<<Csharp, <<"|", "a", ".">>, Dotnet, <<"a", "_">>>>)
    /\ converted = ReturnString(Dotnet \o <<".", "a", ".">>)

\* C13 third witness: a name without prefix, "_a.B" gives "A.b"
C13_NoPrefixWitness ==
    /\ section = <<"_", "a", ".", "B">>
    /\ converted = ReturnString(<<"A", ".", "b">>)

\* C14 as stated: every section without '.' raises an assertion failure.
C14_Original ==
    (Converted /\ ~Has(section, "."))
    => converted = AssertionError

\* C14 amended: a section without '.' raises an assertion failure when it
\* has no language or the language csharp, and returns null when it has
\* another language; no section with a '.' raises.
C14_AssertionWithoutDot ==
    Converted
    => /\ ~Has(section, ".")
            => converted = IF ForClient(section) THEN AssertionError ELSE ReturnNullResult
       /\ converted = AssertionError => ~Has(section, ".")

\* C14 witness: "csharp|dotnet_a" has no '.' and raised
C14_Witness ==
    /\ section = concat(<<Csharp, <<"|">>, Dotnet, <<"_", "a">>>>)
    /\ ~Has(section, ".")
    /\ converted = AssertionError

\* C14 second witness: "vb|a" has no '.' and returned null
C14_OtherLanguageWitness ==
    /\ section = <<"v", "b", "|", "a">>
    /\ converted = ReturnNullResult

\* C15: a section whose text before the first '|' is not "csharp" gives
\* null; a section with no '|' or with the language csharp that has a '.'
\* gives a string.
C15_NullForOtherLanguages ==
    Converted
    => /\ (Has(section, "|") /\ LanguagePrefix(section) # Csharp)
            => converted = ReturnNullResult
       /\ (ForClient(section) /\ Has(section, "."))
            => converted.kind = "string"

\* C15 witness: "vb|a.B" gave null
C15_Witness ==
    /\ section = <<"v", "b", "|", "a", ".", "B">>
    /\ converted = ReturnNullResult

\* C15 second witness: "|a.B", an empty language, gave null
C15_EmptyLanguageWitness ==
    /\ section = <<"|", "a", ".", "B">>
    /\ converted = ReturnNullResult

\* C15 third witness: "csharp|a.B" gave a string
C15_CsharpWitness ==
    /\ section = concat(<<Csharp, <<"|", "a", ".", "B">>>>)
    /\ converted = ReturnString(<<"a", ".", "b">>)

----
(***************************************************************************)
(* OmniSharpStructureProvider.provideFoldingRanges                         *)
(* (src/src/features/structureProvider.ts).                                *)
(***************************************************************************)
\* line 31-42 with "Region" left unclassified
GetTypeWithoutRegion(type) ==
    CASE type = "Comment" -> "FoldingRangeKind.Comment"
      [] type = "Imports" -> "FoldingRangeKind.Imports"
      [] OTHER -> Undefined

\* lines 31-42
GetType(type) ==
    CASE type = "Comment" -> "FoldingRangeKind.Comment"
      [] type = "Imports" -> "FoldingRangeKind.Imports"
      [] type = "Region" -> "FoldingRangeKind.Region"
      [] OTHER -> Undefined

\* line 21: new FoldingRange(start, end, kind)
FoldingRange(start, end, kind) == [start |-> start, end |-> end, kind |-> kind]

\* lines 19-24: one range pushed per member of response.Spans, in order
RangesOf(Spans) ==
    [i \in DOMAIN Spans |->
        FoldingRange(Spans[i].Range.Start.Line, Spans[i].Range.End.Line,
                     GetType(Spans[i].Kind))]

\* what blockStructure answers: a response with Spans, or a rejection
BlockStructureResponse(Spans) == [kind |-> "response", value |-> Spans]
BlockStructureRejected == [kind |-> "rejected", value |-> <<>>]

\* what provideFoldingRanges returns
ReturnRanges(ranges) == [kind |-> "returned", value |-> ranges]

\* the most spans in a response
MaxSpans == 2

SpanKinds == {"Comment", "Imports", "Region", "Class", "comment"}

SpanLines == {0, 2}

CodeFoldingBlocks ==
    {[Range |-> [Start |-> [Line |-> a], End |-> [Line |-> b]], Kind |-> k] :
        a \in SpanLines, b \in SpanLines, k \in SpanKinds}

\* the sequences of at most n spans
RECURSIVE SpanLists(_)
SpanLists(n) ==
    IF n = 0 THEN {<<>>}
    ELSE SpanLists(n - 1)
         \cup {Append(l, b) : l \in SpanLists(n - 1), b \in CodeFoldingBlocks}

Responses ==
    {BlockStructureRejected} \cup {BlockStructureResponse(l) : l \in SpanLists(MaxSpans)}

StructureInit ==
    /\ ProviderNotCalled
    /\ ConverterNotCalled
    /\ response \in Responses
    /\ foldingRanges = NotCalled

StructureUnchanged ==
    /\ UNCHANGED <<section, converted, response>>
    /\ UNCHANGED providerVars

\* lines 17-25: the request is answered and the ranges are returned
ProvideFoldingRanges ==
    /\ foldingRanges = NotCalled
    /\ response.kind = "response"
    /\ foldingRanges' = ReturnRanges(RangesOf(response.value))
    /\ StructureUnchanged

\* lines 26-28: the request fails and [] is returned
ProvideFoldingRangesCatches ==
    /\ foldingRanges = NotCalled
    /\ response.kind = "rejected"
    /\ foldingRanges' = ReturnRanges(<<>>)
    /\ StructureUnchanged

StructureNext ==
    \/ ProvideFoldingRanges
    \/ ProvideFoldingRangesCatches

StructureSpec == StructureInit /\ [][StructureNext]_vars

\* C16: one folding range per span, in the order of the spans, from
\* Range.Start.Line to Range.End.Line, of kind Comment, Imports or Region for
\* a span of that kind and of no kind otherwise; when the request fails the
\* empty list is returned and nothing is raised.
C16_OneRangePerSpan ==
    foldingRanges # NotCalled
    => /\ foldingRanges.kind = "returned"
       /\ IF response.kind = "response"
          THEN /\ Len(foldingRanges.value) = Len(response.value)
               /\ \A i \in DOMAIN response.value :
                     LET member == response.value[i]
                         range == foldingRanges.value[i]
                     IN  /\ range.start = member.Range.Start.Line
                         /\ range.end = member.Range.End.Line
                         /\ member.Kind = "Comment" => range.kind = "FoldingRangeKind.Comment"
                         /\ member.Kind = "Imports" => range.kind = "FoldingRangeKind.Imports"
                         /\ member.Kind = "Region" => range.kind = "FoldingRangeKind.Region"
                         /\ member.Kind \notin {"Comment", "Imports", "Region"}
                               => range.kind = Undefined
          ELSE foldingRanges.value = <<>>

\* C16 witness: a region from line 0 to 2 and then a class from line 2 to 2
\* gave a Region range and then a range of no kind, with the same lines.
C16_Witness ==
    /\ response.kind = "response" /\ Len(response.value) = 2
    /\ response.value[1] = [Range |-> [Start |-> [Line |-> 0], End |-> [Line |-> 2]],
                             Kind |-> "Region"]
    /\ response.value[2].Kind = "Class"
    /\ foldingRanges = ReturnRanges(<<FoldingRange(0, 2, "FoldingRangeKind.Region"),
                                       FoldingRange(2, 2, Undefined)>>)

\* C16 second witness: the request failed and [] was returned
C16_RejectedWitness ==
    /\ response = BlockStructureRejected
    /\ foldingRanges = ReturnRanges(<<>>)

====
